---- MODULE Spec2Model ----
(***************************************************************************)
(* A model of the XrozenAI chat page (src/src/pages/XrozenAI.tsx): the     *)
(* React state of the component, the asynchronous flows its handlers       *)
(* start, and the hosted backend's two tables they read and write.         *)
(*                                                                         *)
(* A handler closes over the state of the render in which it was invoked:  *)
(* what it reads after an await is the value captured at the click, while  *)
(* a functional updater (setX(prev => ...)) reads the state current when   *)
(* it is applied.  Each await is one step of the model: the request's      *)
(* effect on the backend and the delivery of its response happen together. *)
(* A click or key event finds the state of the latest render: React        *)
(* flushes the updates of one event before it dispatches the next.         *)
(*                                                                         *)
(* The identity provider and the backend are the environment: an identity  *)
(* lookup answers with a user or with none, a table request succeeds or    *)
(* returns an error (the client never throws: it resolves with { error }). *)
(*                                                                         *)
(* A text is a sequence of symbols: " " and "NL" are white space, "M"      *)
(* stands for the marker token __ACTION_DATA__.                            *)
(***************************************************************************)
EXTENDS Integers, Sequences, FiniteSets, Bags, TLC

VARIABLES
  dbConvs,               \* table ai_conversations: set of rows
  dbMessages,            \* table ai_messages: set of rows
  clock,                 \* time: the last timestamp handed out
  route,                 \* "chat" | "auth" (after navigate('/auth'))
  conversations,         \* useState: Conversation[]
  selectedConversation,  \* useState: id or Null
  messages,              \* useState: Message[]
  input,                 \* useState: the textarea's text
  loading,               \* useState: the pending-send flag
  loadingConversations,  \* useState
  boot,                  \* position of checkAuth / loadConversations
  loads,                 \* loadMessages calls in flight: a bag of conversation ids
  creates,               \* createNewConversation calls in flight, by position
  deletes,               \* deleteConversation calls in flight
  send,                  \* the sendMessage call in flight (stage "idle": none)
  invoked,               \* requests made to the remote assistant function
  last,                  \* the last step taken (typing aside) and its notification
  budget,                \* user actions left (bounds the model)
  admin                  \* an admin page (API keys, activity logs), when open

vars == <<dbConvs, dbMessages, clock, route, conversations,
          selectedConversation, messages, input, loading, loadingConversations,
          boot, loads, creates, deletes, send, invoked, last, budget, admin>>

\* the state of the XrozenAI page and of its tables
xrozen == <<dbConvs, dbMessages, clock, route, conversations,
            selectedConversation, messages, input, loading,
            loadingConversations, boot, loads, creates, deletes, send, invoked,
            last, budget>>

backend == <<dbConvs, dbMessages>>

----------------------------------------------------------------------------
(* Bounds *)

MaxClicks == 2       \* user actions (select, create, delete, accepted send)
MaxLoads == 2        \* loadMessages calls in flight at once

\* null; a conversation's id is the time of its insert, which is positive
Null == 0

WhiteSpace == {" ", "NL"}

\* userMessage.slice(0, 50), line 207
TitleLen == 50

\* what the user types: nothing, a blank, and a text with a blank before it
\* that is longer than a title
LongText == [k \in 1..(TitleLen + 1) |-> "a"]
Inputs == {<<>>, <<" ">>, <<" ">> \o LongText}
Responses == {<<"o">>, <<"o", "M", "x", "M", " ", "k">>}
NewConversationTitle == <<"New Conversation">>

MaxResponseLen == 4  \* symbols of a response text, where every text is tried

\* the symbols of a response text: a character, a blank, a line break, and
\* the marker __ACTION_DATA__
Symbols == {"x", " ", "NL", "M"}
ResponseTexts == UNION {[1..n -> Symbols] : n \in 0..MaxResponseLen}

----------------------------------------------------------------------------
(* Texts *)

RECURSIVE TrimStart(_)
TrimStart(t) ==
  IF t # <<>> /\ Head(t) \in WhiteSpace THEN TrimStart(Tail(t)) ELSE t

RECURSIVE TrimEnd(_)
TrimEnd(t) ==
  IF t # <<>> /\ t[Len(t)] \in WhiteSpace
  THEN TrimEnd(SubSeq(t, 1, Len(t) - 1)) ELSE t

\* String.prototype.trim
Trim(t) == TrimEnd(TrimStart(t))

\* the whole text as the title
SliceNone(t) == t

\* userMessage.slice(0, 50)
Slice50(t) == SubSeq(t, 1, IF Len(t) < TitleLen THEN Len(t) ELSE TitleLen)

\* the matches of /__ACTION_DATA__(.+?)__ACTION_DATA__/ : "." is any symbol
\* but a line break, and at least one symbol lies between the two markers
ActionMatches(t) ==
  {p \in (1..Len(t)) \X (1..Len(t)) :
      /\ t[p[1]] = "M" /\ t[p[2]] = "M" /\ p[2] >= p[1] + 2
      /\ \A k \in (p[1] + 1)..(p[2] - 1) : t[k] # "NL"}

\* the match the regular expression finds: leftmost, then shortest
ActionMatch(t) ==
  LET i == CHOOSE x \in {p[1] : p \in ActionMatches(t)} :
             \A y \in {p[1] : p \in ActionMatches(t)} : x <= y
      j == CHOOSE x \in {p[2] : p \in {q \in ActionMatches(t) : q[1] = i}} :
             \A y \in {p[2] : p \in {q \in ActionMatches(t) : q[1] = i}} : x <= y
  IN <<i, j>>

\* lines 233-237: the response with its first action block removed, trimmed
StripActionData(t) ==
  IF ActionMatches(t) = {} THEN t
  ELSE LET m == ActionMatch(t)
       IN Trim(SubSeq(t, 1, m[1] - 1) \o SubSeq(t, m[2] + 1, Len(t)))

----------------------------------------------------------------------------
(* Backend tables *)

RECURSIVE OrderAscCreated(_)
\* .order('created_at', { ascending: true })
OrderAscCreated(rows) ==
  IF rows = {} THEN <<>>
  ELSE LET m == CHOOSE x \in rows : \A y \in rows : x.created_at <= y.created_at
       IN <<m>> \o OrderAscCreated(rows \ {m})

RECURSIVE OrderDescUpdated(_)
\* .order('updated_at', { ascending: false })
OrderDescUpdated(rows) ==
  IF rows = {} THEN <<>>
  ELSE LET m == CHOOSE x \in rows : \A y \in rows : x.updated_at >= y.updated_at
       IN <<m>> \o OrderDescUpdated(rows \ {m})

\* a row of ai_messages as the page's Message
AsMessage(row) ==
  [id |-> row.id, role |-> row.role, content |-> row.content,
   created_at |-> row.created_at]

\* a row of ai_conversations as the page's Conversation
AsConversation(row) ==
  [id |-> row.id, title |-> row.title, updated_at |-> row.updated_at]

\* from('ai_messages').select('*').eq('conversation_id', c).order(created_at)
ListMessages(c) ==
  LET rows == OrderAscCreated({r \in dbMessages : r.conversation_id = c})
  IN [k \in 1..Len(rows) |-> AsMessage(rows[k])]

\* the listing with the order reversed: least recently updated first
ListConversationsOldestFirst ==
  LET rows == OrderDescUpdated(dbConvs)
  IN [k \in 1..Len(rows) |-> AsConversation(rows[Len(rows) + 1 - k])]

\* from('ai_conversations').select('*').eq('user_id', ...).order(updated_at desc)
ListConversations ==
  LET rows == OrderDescUpdated(dbConvs)
  IN [k \in 1..Len(rows) |-> AsConversation(rows[k])]

\* the rows of a conversation the user had before the page was opened
SeedConvs ==
  {[id |-> 1, title |-> <<"A">>, updated_at |-> 1],
   [id |-> 2, title |-> <<"B">>, updated_at |-> 3]}

SeedMessages ==
  {[id |-> <<"db", 1>>, conversation_id |-> 1, role |-> "user",
    content |-> <<"q">>, created_at |-> 1],
   [id |-> <<"db", 2>>, conversation_id |-> 1, role |-> "assistant",
    content |-> <<"r">>, created_at |-> 2],
   [id |-> <<"db", 3>>, conversation_id |-> 2, role |-> "user",
    content |-> <<"p">>, created_at |-> 3]}

\* the latest timestamp among the seeded rows
SeedClock ==
  LET times == {r.updated_at : r \in SeedConvs} \cup
               {r.created_at : r \in SeedMessages}
  IN CHOOSE t \in times : \A u \in times : u <= t

----------------------------------------------------------------------------
(* The page's state after construction (lines 30-36) *)

NoSend ==
  [stage |-> "idle", userMessage |-> <<>>, tempId |-> <<"temp", 0>>,
   conversationIdToUse |-> Null, context |-> <<>>, before |-> <<>>]

\* toast({ title, description, variant })
NoToast == [title |-> "", description |-> "", variant |-> ""]

ErrorToast(description) ==
  [title |-> "Error", description |-> description, variant |-> "destructive"]

SuccessToast(description) ==
  [title |-> "Success", description |-> description, variant |-> "default"]

\* a step, its notification, and what it was about (the conversation deleted,
\* the response text received)
StepOf(op, toast, c) == [op |-> op, toast |-> toast, of |-> c]

Step(op, toast) == StepOf(op, toast, Null)

\* an admin page that is not open
AdminAbsent ==
  [page |-> "none", visitor |-> "none", table |-> {}, route |-> "none",
   check |-> "idle", load |-> "idle", rows |-> <<>>, loading |-> TRUE,
   queried |-> FALSE, toasts |-> {}]

\* the XrozenAI page after construction
XrozenConstructed ==
  /\ dbConvs = SeedConvs
  /\ dbMessages = SeedMessages
  /\ clock = SeedClock
  /\ route = "chat"
  /\ conversations = <<>>
  /\ selectedConversation = Null
  /\ messages = <<>>
  /\ input = <<>>
  /\ loading = FALSE
  /\ loadingConversations = TRUE
  /\ boot = "checkAuth"
  /\ loads = EmptyBag
  /\ creates = [getUser |-> 0, insert |-> 0]
  /\ deletes = {}
  /\ send = NoSend
  /\ invoked = <<>>
  /\ last = Step("mount", NoToast)
  /\ budget = MaxClicks

Init == XrozenConstructed /\ admin = AdminAbsent

----------------------------------------------------------------------------
(* Page load: checkAuth, loadConversations *)

\* the selectedConversation that loadConversations reads: the effect of
\* line 42 runs once, so the closure it calls is the first render's
SelectedAtMount == Null

\* lines 43-50
CheckAuthResolve(user) ==
  /\ boot = "checkAuth"
  /\ IF user
     THEN /\ boot' = "loadGetUser"
          /\ route' = route
          /\ last' = Step("checkAuth", NoToast)
     ELSE /\ boot' = "done"
          /\ route' = "auth"
          /\ last' = Step("redirect", NoToast)
  /\ UNCHANGED <<backend, clock, conversations, selectedConversation, messages,
                 input, loading, loadingConversations, loads, creates, deletes,
                 send, invoked, budget>>
  /\ UNCHANGED admin

\* lines 64-65 and 84-86
LoadConversationsGetUser(user) ==
  /\ boot = "loadGetUser"
  /\ IF user
     THEN /\ boot' = "loadQuery"
          /\ UNCHANGED loadingConversations
          /\ last' = Step("loadConversationsUser", NoToast)
     ELSE /\ boot' = "done"
          /\ loadingConversations' = FALSE
          /\ last' = Step("loadConversationsNoUser", NoToast)
  /\ UNCHANGED <<backend, clock, route, conversations, selectedConversation,
                 messages, input, loading, loads, creates, deletes, send,
                 invoked, budget>>
  /\ UNCHANGED admin

\* lines 67-86
LoadConversationsQuery(ok) ==
  /\ boot = "loadQuery"
  /\ boot' = "done"
  /\ loadingConversations' = FALSE
  /\ IF ok
     THEN LET data == ListConversations IN
          /\ conversations' = data
          /\ IF Len(data) > 0 /\ SelectedAtMount = Null
             THEN /\ selectedConversation' = data[1].id
                  /\ loads' = loads (+) SetToBag({data[1].id})
             ELSE UNCHANGED <<selectedConversation, loads>>
          /\ last' = Step("loadConversations", NoToast)
     ELSE /\ UNCHANGED <<conversations, selectedConversation, loads>>
          /\ last' = Step("loadConversationsFailed", NoToast)
  /\ UNCHANGED <<backend, clock, route, messages, input, loading, creates,
                 deletes, send, invoked, budget>>
  /\ UNCHANGED admin

----------------------------------------------------------------------------
(* SelectConversation: the click of lines 327-331, and loadMessages *)

\* the rows of the history sheet (lines 309-318)
Shown ==
  IF loadingConversations THEN {}
  ELSE {conversations[k].id : k \in 1..Len(conversations)}

SelectConversation(c) ==
  /\ route = "chat" /\ budget > 0
  /\ c \in Shown
  /\ BagCardinality(loads) < MaxLoads
  /\ selectedConversation' = c
  /\ loads' = loads (+) SetToBag({c})
  /\ budget' = budget - 1
  /\ last' = Step("select", NoToast)
  /\ UNCHANGED <<backend, clock, route, conversations, messages, input,
                 loading, loadingConversations, boot, creates, deletes, send,
                 invoked>>
  /\ UNCHANGED admin

\* lines 90-104
LoadMessagesResolve(c, ok) ==
  /\ BagIn(c, loads)
  /\ loads' = loads (-) SetToBag({c})
  /\ IF ok
     THEN /\ messages' = ListMessages(c)
          /\ last' = Step("loadMessages", NoToast)
     ELSE /\ UNCHANGED messages
          /\ last' = Step("loadMessagesFailed", NoToast)
  /\ UNCHANGED <<backend, clock, route, conversations, selectedConversation,
                 input, loading, loadingConversations, boot, creates, deletes,
                 send, invoked, budget>>
  /\ UNCHANGED admin

----------------------------------------------------------------------------
(* CreateConversation: createNewConversation, lines 107-135 *)

\* the row the backend inserts (its id and timestamp are the insert's time)
NewConversationRow(title) ==
  [id |-> clock + 1, title |-> title, updated_at |-> clock + 1]

CreateNewConversation ==
  /\ route = "chat" /\ budget > 0
  /\ creates' = [creates EXCEPT !.getUser = @ + 1]
  /\ budget' = budget - 1
  /\ last' = Step("create", NoToast)
  /\ UNCHANGED <<backend, clock, route, conversations, selectedConversation,
                 messages, input, loading, loadingConversations, boot, loads,
                 deletes, send, invoked>>
  /\ UNCHANGED admin

\* lines 109-110
CreateGetUserResolve(user) ==
  /\ creates.getUser > 0
  /\ IF user
     THEN creates' = [getUser |-> creates.getUser - 1, insert |-> creates.insert + 1]
     ELSE creates' = [creates EXCEPT !.getUser = @ - 1]
  /\ last' = Step(IF user THEN "createUser" ELSE "createNoUser", NoToast)
  /\ UNCHANGED <<backend, clock, route, conversations, selectedConversation,
                 messages, input, loading, loadingConversations, boot, loads,
                 deletes, send, invoked, budget>>
  /\ UNCHANGED admin

\* lines 112-134
CreateInsertResolve(ok) ==
  /\ creates.insert > 0
  /\ creates' = [creates EXCEPT !.insert = @ - 1]
  /\ IF ok
     THEN LET data == NewConversationRow(NewConversationTitle) IN
          /\ dbConvs' = dbConvs \cup {data}
          /\ clock' = clock + 1
          /\ conversations' = <<AsConversation(data)>> \o conversations
          /\ selectedConversation' = data.id
          /\ messages' = <<>>
          /\ input' = <<>>
          /\ last' = Step("created", NoToast)
     ELSE /\ UNCHANGED <<dbConvs, clock, conversations, selectedConversation,
                         messages, input>>
          /\ last' = Step("createFailed", ErrorToast("Failed to create new conversation"))
  /\ UNCHANGED <<dbMessages, route, loading, loadingConversations,
                 boot, loads, deletes, send, invoked, budget>>
  /\ UNCHANGED admin

----------------------------------------------------------------------------
(* DeleteConversation: deleteConversation, lines 138-175 *)

\* the click of line 344: the call closes over the render's selection
DeleteConversation(c) ==
  /\ route = "chat" /\ budget > 0
  /\ c \in Shown
  /\ \A d \in deletes : d.conversationId # c   \* one call per conversation
  /\ deletes' = deletes \cup
       {[conversationId |-> c, selectedConversation |-> selectedConversation,
         stage |-> "messages"]}
  /\ budget' = budget - 1
  /\ last' = Step("delete", NoToast)
  /\ UNCHANGED <<backend, clock, route, conversations, selectedConversation,
                 messages, input, loading, loadingConversations, boot, loads,
                 creates, send, invoked>>
  /\ UNCHANGED admin

\* lines 143-146: the result of the request is not read
DeleteMessagesResolve(d, ok) ==
  /\ d \in deletes /\ d.stage = "messages"
  /\ deletes' = (deletes \ {d}) \cup {[d EXCEPT !.stage = "conversation"]}
  /\ dbMessages' = IF ok
                   THEN {r \in dbMessages : r.conversation_id # d.conversationId}
                   ELSE dbMessages
  /\ last' = Step(IF ok THEN "deleteMessages" ELSE "deleteMessagesFailed", NoToast)
  /\ UNCHANGED <<dbConvs, clock, route, conversations,
                 selectedConversation, messages, input, loading,
                 loadingConversations, boot, loads, creates, send, invoked,
                 budget>>
  /\ UNCHANGED admin

\* line 158, with the selection the call closed over
DeletedIsSelected(d) == d.selectedConversation = d.conversationId

\* line 156
WithoutConversation(prev, c) == SelectSeq(prev, LAMBDA x : x.id # c)

\* lines 149-174
DeleteConversationResolve(d, ok) ==
  /\ d \in deletes /\ d.stage = "conversation"
  /\ deletes' = deletes \ {d}
  /\ IF ok
     THEN /\ dbConvs' = {r \in dbConvs : r.id # d.conversationId}
          /\ conversations' = WithoutConversation(conversations, d.conversationId)
          /\ IF DeletedIsSelected(d)
             THEN /\ selectedConversation' = Null
                  /\ messages' = <<>>
             ELSE UNCHANGED <<selectedConversation, messages>>
          /\ last' = StepOf("deleted", SuccessToast("Conversation deleted successfully"),
                         d.conversationId)
     ELSE /\ UNCHANGED <<dbConvs, conversations, selectedConversation, messages>>
          /\ last' = Step("deleteFailed", ErrorToast("Failed to delete conversation"))
  /\ UNCHANGED <<dbMessages, clock, route, input, loading,
                 loadingConversations, boot, loads, creates, send, invoked,
                 budget>>
  /\ UNCHANGED admin

----------------------------------------------------------------------------
(* SendMessage: sendMessage, lines 178-264 *)

\* line 179 without its guard
SendNeverRejected(text, pending) == FALSE

\* line 179 testing the raw text
SendRejectedUntrimmed(text, pending) == text = <<>> \/ pending

\* line 179
SendRejected(text, pending) == Trim(text) = <<>> \/ pending

\* lines 188-193
WithOptimistic(prev, tempId, userMessage, now) ==
  Append(prev, [id |-> tempId, role |-> "user", content |-> userMessage,
                created_at |-> now])

\* lines 223-226: the history sent as context, from the render's messages
Context(captured, tempId) ==
  LET kept == SelectSeq(captured, LAMBDA m : m.id # tempId)
  IN [k \in 1..Len(kept) |-> [role |-> kept[k].role, content |-> kept[k].content]]

\* lines 219-228: the request body
Request(s) ==
  [message |-> s.userMessage, conversationId |-> s.conversationIdToUse,
   messages |-> s.context]

\* lines 240-249 dropping the optimistic message instead of replacing it
CommittedWithoutOptimistic(prev, tempId, now, responseContent) ==
  Append(SelectSeq(prev, LAMBDA m : m.id # tempId),
         [id |-> <<"ai", now>>, role |-> "assistant",
          content |-> responseContent, created_at |-> now])

\* lines 240-249
Committed(prev, tempId, now, responseContent) ==
  Append([k \in 1..Len(prev) |->
            IF prev[k].id = tempId
            THEN [prev[k] EXCEPT !.id = <<"user", now>>]
            ELSE prev[k]],
         [id |-> <<"ai", now>>, role |-> "assistant",
          content |-> responseContent, created_at |-> now])

\* line 254 leaving an error entry where the optimistic message was
RolledBackToErrorEntry(prev, tempId) ==
  [k \in 1..Len(prev) |->
     IF prev[k].id = tempId
     THEN [prev[k] EXCEPT !.id = <<"error", tempId[2]>>, !.role = "assistant"]
     ELSE prev[k]]

\* line 254
RolledBack(prev, tempId) == SelectSeq(prev, LAMBDA m : m.id # tempId)

\* lines 178-193, and 196-228 up to the first await
SendMessage ==
  /\ route = "chat"
  /\ IF SendRejected(input, loading)
     THEN /\ last' = Step("sendRejected", NoToast)
          /\ UNCHANGED <<backend, clock, route, conversations,
                         selectedConversation, messages, input, loading,
                         loadingConversations, boot, loads, creates, deletes,
                         send, invoked, budget>>
     ELSE LET userMessage == Trim(input)
              now == clock + 1
              tempId == <<"temp", now>>
              s == [stage |-> IF selectedConversation = Null
                              THEN "getUser" ELSE "invoke",
                    userMessage |-> userMessage,
                    tempId |-> tempId,
                    conversationIdToUse |-> selectedConversation,
                    context |-> Context(messages, tempId),
                    before |-> messages]
          IN /\ budget > 0
             /\ budget' = budget - 1
             /\ clock' = now
             /\ input' = <<>>
             /\ loading' = TRUE
             /\ messages' = WithOptimistic(messages, tempId, userMessage, now)
             /\ send' = s
             /\ invoked' = IF s.stage = "invoke"
                           THEN Append(invoked, Request(s)) ELSE invoked
             /\ last' = Step("sendAccepted", NoToast)
             /\ UNCHANGED <<backend, route, conversations, selectedConversation,
                            loadingConversations, boot, loads, creates, deletes>>
  /\ UNCHANGED admin

\* lines 251-260 without the finally clause
SendFailsKeepsPending(reason) ==
  /\ messages' = RolledBack(messages, send.tempId)
  /\ UNCHANGED loading
  /\ send' = NoSend
  /\ last' = Step("sendRolledBack", ErrorToast(reason))

\* the catch and finally of lines 251-263
SendFails(reason) ==
  /\ messages' = RolledBack(messages, send.tempId)
  /\ loading' = FALSE
  /\ send' = NoSend
  /\ last' = Step("sendRolledBack", ErrorToast(reason))

\* lines 200-201
SendGetUserResolve(user) ==
  /\ send.stage = "getUser"
  /\ IF user
     THEN /\ send' = [send EXCEPT !.stage = "insert"]
          /\ last' = Step("sendUser", NoToast)
          /\ UNCHANGED <<messages, loading>>
     ELSE SendFails("User not authenticated")
  /\ UNCHANGED <<backend, clock, route, conversations, selectedConversation,
                 input, loadingConversations, boot, loads, creates, deletes,
                 invoked, budget>>
  /\ UNCHANGED admin

\* lines 203-228
SendInsertResolve(ok) ==
  /\ send.stage = "insert"
  /\ IF ok
     THEN LET newConv == NewConversationRow(Slice50(send.userMessage))
              s == [send EXCEPT !.stage = "invoke",
                                !.conversationIdToUse = newConv.id]
          IN /\ dbConvs' = dbConvs \cup {newConv}
             /\ clock' = clock + 1
             /\ selectedConversation' = newConv.id
             /\ conversations' = <<AsConversation(newConv)>> \o conversations
             /\ send' = s
             /\ invoked' = Append(invoked, Request(s))
             /\ last' = Step("sendCreated", NoToast)
             /\ UNCHANGED <<messages, loading>>
     ELSE /\ SendFails("insert rejected")
          /\ UNCHANGED <<dbConvs, clock, selectedConversation, conversations,
                         invoked>>
  /\ UNCHANGED <<dbMessages, route, input, loadingConversations, boot,
                 loads, creates, deletes, budget>>
  /\ UNCHANGED admin

\* what the remote assistant function stores when it answers: the user's
\* message and its reply, in the conversation of the request if it exists
RemotePersist(req, reply) ==
  IF req.conversationId \in {r.id : r \in dbConvs}
  THEN /\ dbMessages' = dbMessages \cup
            {[id |-> <<"db", clock + 1>>, conversation_id |-> req.conversationId,
              role |-> "user", content |-> req.message, created_at |-> clock + 1],
             [id |-> <<"db", clock + 2>>, conversation_id |-> req.conversationId,
              role |-> "assistant", content |-> reply, created_at |-> clock + 2]}
       /\ dbConvs' = {IF r.id = req.conversationId
                      THEN [r EXCEPT !.updated_at = clock + 2] ELSE r : r \in dbConvs}
       /\ clock' = clock + 2
  ELSE UNCHANGED <<dbConvs, dbMessages, clock>>

\* the ways the call of line 219 ends: an error, a body without a response
\* text (line 234 throws), or a response text
Outcomes == {<<"error">>, <<"malformed">>} \cup {<<"ok", r>> : r \in Responses}

\* lines 230-263
SendInvokeResolve(out) ==
  /\ send.stage = "invoke"
  /\ IF out[1] = "ok"
     THEN LET responseContent == StripActionData(out[2]) IN
          /\ RemotePersist(Request(send), responseContent)
          /\ messages' = Committed(messages, send.tempId, clock', responseContent)
          /\ loading' = FALSE
          /\ send' = NoSend
          /\ last' = StepOf("sendCommitted", NoToast, out[2])
     ELSE /\ SendFails(IF out[1] = "error" THEN "Failed to send message"
                       ELSE "TypeError")
          /\ UNCHANGED <<dbConvs, dbMessages, clock>>
  /\ UNCHANGED <<route, conversations, selectedConversation, input,
                 loadingConversations, boot, loads, creates, deletes, invoked,
                 budget>>
  /\ UNCHANGED admin

----------------------------------------------------------------------------
(* Typing *)

\* line 451; the textarea is disabled while a send is pending (line 459)
TypeInput(t) ==
  /\ route = "chat" /\ ~loading
  /\ t # input
  /\ input' = t
  /\ UNCHANGED <<last, backend, clock, route, conversations, selectedConversation,
                 messages, loading, loadingConversations, boot, loads, creates,
                 deletes, send, invoked, budget>>
  /\ UNCHANGED admin

----------------------------------------------------------------------------

Next ==
  \/ \E user \in BOOLEAN : CheckAuthResolve(user)
  \/ \E user \in BOOLEAN : LoadConversationsGetUser(user)
  \/ \E ok \in BOOLEAN : LoadConversationsQuery(ok)
  \/ \E c \in Shown : SelectConversation(c)
  \/ \E c \in BagToSet(loads), ok \in BOOLEAN : LoadMessagesResolve(c, ok)
  \/ CreateNewConversation
  \/ \E user \in BOOLEAN : CreateGetUserResolve(user)
  \/ \E ok \in BOOLEAN : CreateInsertResolve(ok)
  \/ \E c \in Shown : DeleteConversation(c)
  \/ \E d \in deletes, ok \in BOOLEAN : DeleteMessagesResolve(d, ok)
  \/ \E d \in deletes, ok \in BOOLEAN : DeleteConversationResolve(d, ok)
  \/ SendMessage
  \/ \E user \in BOOLEAN : SendGetUserResolve(user)
  \/ \E ok \in BOOLEAN : SendInsertResolve(ok)
  \/ \E out \in Outcomes : SendInvokeResolve(out)
  \/ \E t \in Inputs : TypeInput(t)

Spec == Init /\ [][Next]_vars

\* The identity lookup, the insert and the remote call of a send each resolve
\* or reject: the transport ends every request.
FairSpec ==
  /\ Init
  /\ [][Next]_vars
  /\ WF_vars(\E user \in BOOLEAN : SendGetUserResolve(user))
  /\ WF_vars(\E ok \in BOOLEAN : SendInsertResolve(ok))
  /\ WF_vars(\E out \in Outcomes : SendInvokeResolve(out))

----------------------------------------------------------------------------
(* The processing of the response text, over every response text *)

\* the page with conversation 2 loaded and the long text sent in it: the
\* remote function is about to answer
InitStrip ==
  LET now == SeedClock + 1
      tempId == <<"temp", now>>
      s == [stage |-> "invoke", userMessage |-> LongText, tempId |-> tempId,
            conversationIdToUse |-> 2,
            context |-> Context(ListMessages(2), tempId),
            before |-> ListMessages(2)]
  IN /\ dbConvs = SeedConvs
     /\ dbMessages = SeedMessages
     /\ clock = now
     /\ route = "chat"
     /\ conversations = ListConversations
     /\ selectedConversation = 2
     /\ messages = WithOptimistic(ListMessages(2), tempId, LongText, now)
     /\ input = <<>>
     /\ loading = TRUE
     /\ loadingConversations = FALSE
     /\ boot = "done"
     /\ loads = EmptyBag
     /\ creates = [getUser |-> 0, insert |-> 0]
     /\ deletes = {}
     /\ send = s
     /\ invoked = <<Request(s)>>
     /\ last = Step("sendAccepted", NoToast)
     /\ budget = MaxClicks - 1
     /\ admin = AdminAbsent

\* lines 230-249 on each response text
NextStrip == \E r \in ResponseTexts : SendInvokeResolve(<<"ok", r>>)

StripSpec == InitStrip /\ [][NextStrip]_vars

----------------------------------------------------------------------------
(* The admin pages: AdminAPI (API keys) and AdminLogs (activity logs) *)

AdminPages == {"AdminAPI", "AdminLogs"}

\* who opens the page: nobody signed in, a user without the admin role, an
\* admin
Visitors == {"signedOut", "user", "admin"}

\* the rows the protected table (api_keys, admin_activity_logs) may hold
ProtectedRows == {[id |-> 1, created_at |-> 1], [id |-> 2, created_at |-> 2]}

RECURSIVE OrderDescCreated(_)
\* .order("created_at", { ascending: false })
OrderDescCreated(rows) ==
  IF rows = {} THEN <<>>
  ELSE LET m == CHOOSE x \in rows : \A y \in rows : x.created_at >= y.created_at
       IN <<m>> \o OrderDescCreated(rows \ {m})

\* the page as constructed: no rows, the loading flag set
AdminOpened(pg, v, t) ==
  [page |-> pg, visitor |-> v, table |-> t, route |-> pg,
   check |-> "idle", load |-> "idle", rows |-> <<>>, loading |-> TRUE,
   queried |-> FALSE, toasts |-> {}]

InitAdmin ==
  /\ XrozenConstructed
  /\ admin \in {AdminOpened(pg, v, t) :
                  pg \in AdminPages, v \in Visitors, t \in SUBSET ProtectedRows}

\* the component is rendered: no navigate has left the page
AdminMounted == admin.route = admin.page

\* the effect run on mount: checkAdminAuth() and then the load are both called,
\* neither awaited, each running up to its first await
AdminMount ==
  /\ admin.check = "idle"
  /\ admin' = [admin EXCEPT !.check = "getUser", !.load = "query",
                            !.queried = TRUE]
  /\ UNCHANGED xrozen

\* checkAdminAuth: supabase.auth.getUser() returns
CheckAdminGetUserResolve ==
  /\ admin.check = "getUser"
  /\ admin' = IF admin.visitor = "signedOut"
              THEN [admin EXCEPT !.check = "done", !.route = "/auth"]
              ELSE [admin EXCEPT !.check = "role"]
  /\ UNCHANGED xrozen

\* checkAdminAuth: the user_roles query returns, with a row or with none
CheckAdminRoleResolve(found) ==
  /\ admin.check = "role"
  /\ LET roleData == found /\ admin.visitor = "admin"
     IN admin' = IF roleData
                 THEN [admin EXCEPT !.check = "passed"]
                 ELSE [admin EXCEPT !.check = "done", !.route = "/dashboard",
                                    !.toasts = @ \cup {"Unauthorized access"}]
  /\ UNCHANGED xrozen

\* what the query of the protected table may return: an error, no row (the
\* backend withholds them from a visitor who is not an admin), or the rows
AdminOutcomes == {"error", "none", "rows"}

\* loadAPIKeys / loadLogs: the query of the protected table returns; state
\* is set only while the component is rendered
AdminLoadResolve(out) ==
  /\ admin.load = "query"
  /\ out = "none" => admin.visitor # "admin"
  /\ LET data == IF out = "rows" THEN OrderDescCreated(admin.table) ELSE <<>>
     IN admin' =
          [admin EXCEPT
             !.load = "done",
             !.rows = IF out # "error" /\ AdminMounted THEN data ELSE @,
             !.toasts = IF out = "error" THEN @ \cup {"Failed to load"} ELSE @,
             !.loading = IF AdminMounted THEN FALSE ELSE @]
  /\ UNCHANGED xrozen

NextAdmin ==
  \/ AdminMount
  \/ CheckAdminGetUserResolve
  \/ \E found \in BOOLEAN : CheckAdminRoleResolve(found)
  \/ \E out \in AdminOutcomes : AdminLoadResolve(out)

AdminSpec == InitAdmin /\ [][NextAdmin]_vars

----------------------------------------------------------------------------
(* Vocabulary of the properties *)

IsOptimistic(m) == m.id[1] = "temp"

OptimisticAt(msgs) == {k \in 1..Len(msgs) : IsOptimistic(msgs[k])}

Blank(t) == \A k \in 1..Len(t) : t[k] = " " \/ t[k] = "NL"

Ids(msgs) == {msgs[k].id : k \in 1..Len(msgs)}

View(msgs) == [k \in 1..Len(msgs) |-> <<msgs[k].role, msgs[k].content>>]

IsErrorToast(t) == t.variant = "destructive" /\ t.title = "Error"

\* a step that ends the pending send by its catch clause
RollbackStep ==
  send.stage # "idle" /\ send'.stage = "idle" /\ last'.op = "sendRolledBack"

\* a step that ends the pending send with the reply
CommitStep ==
  send.stage = "invoke" /\ send'.stage = "idle" /\ last'.op = "sendCommitted"

\* a step in which the deletion of conversation c completes successfully
DeletedStep(c) ==
  /\ \E d \in deletes : d.conversationId = c /\ d \notin deletes'
  /\ last'.op = "deleted" /\ last'.of = c

\* no asynchronous flow is in flight
Quiescent ==
  /\ ~loading /\ send.stage = "idle"
  /\ loads = EmptyBag /\ boot = "done"
  /\ creates.getUser = 0 /\ creates.insert = 0
  /\ deletes = {}

----------------------------------------------------------------------------
(* C1: when the remote call of an accepted send succeeds, the optimistic   *)
(* message is still in the list, its temporary id replaced by a permanent  *)
(* one, one assistant message is appended directly after it, and no other  *)
(* element of the list changes, whatever was interleaved with the send.    *)
C1_CommitKeepsOptimistic ==
  [][CommitStep =>
       \E k \in 1..Len(messages) :
          /\ messages[k].id = send.tempId
          /\ Len(messages') = Len(messages) + 1
          /\ k + 1 = Len(messages')
          /\ messages'[k].id[1] = "user"
          /\ messages'[k] = [messages[k] EXCEPT !.id = messages'[k].id]
          /\ messages'[k + 1].role = "assistant"
          /\ \A j \in 1..Len(messages) : j # k => messages'[j] = messages[j]]_vars

C3_AtRestMatchesBackend ==
  Quiescent =>
    View(messages) = IF selectedConversation = Null THEN <<>>
                     ELSE View(ListMessages(selectedConversation))

(* C4: a send attempted while another is pending is a no-op and is not     *)
(* queued: the list never holds more than one optimistic entry, the        *)
(* pending flag is set exactly while one send is in flight, and the remote *)
(* function is requested only by a send that was accepted while none was   *)
(* pending.                                                                *)
C4_PendingSendRejected ==
  [][/\ Cardinality(OptimisticAt(messages')) <= 1
     /\ loading' <=> send'.stage # "idle"
     /\ (loading /\ SendMessage) =>
          UNCHANGED <<messages, send, invoked, loading, input, backend,
                      conversations, selectedConversation, budget>>
     /\ invoked' # invoked =>
          /\ Len(invoked') = Len(invoked) + 1
          /\ ~loading \/ send.stage = "insert"]_vars

\* a second send was attempted while the first was pending
C4_Witness ==
  /\ last.op = "sendRejected" /\ loading
  /\ Cardinality(OptimisticAt(messages)) = 1 /\ Len(invoked) = 1

(* C5: a send with empty or white-space-only text changes nothing: not the *)
(* list, the pending flag, the selection, the conversation list or the     *)
(* input, and no backend or remote request is made.                        *)
C5_BlankSendIsNoOp ==
  [][(Blank(input) /\ SendMessage) =>
       UNCHANGED <<messages, loading, selectedConversation, conversations,
                   input, backend, clock, invoked, send, loads, creates,
                   deletes, budget>>]_vars

\* a white-space-only text was sent while no send was pending
C5_Witness ==
  last.op = "sendRejected" /\ ~loading /\ input = <<" ">>

(* C6: while a send is pending the list holds exactly one optimistic       *)
(* message and it is the last element; nothing interleaved removes it.     *)
C6_OptimisticAtTail ==
  loading => /\ Cardinality(OptimisticAt(messages)) = 1
             /\ IsOptimistic(messages[Len(messages)])

(* C7: every accepted send ends with the pending flag clear, once its      *)
(* identity lookup, insert and remote call have each resolved or rejected. *)
C7_SendReturnsToIdle == loading ~> ~loading

\* a send that created its conversation and then failed has returned to idle
C7_Witness ==
  /\ last.op = "sendRolledBack" /\ ~loading /\ send.stage = "idle"
  /\ selectedConversation > SeedClock

(* C8: when the deletion of the conversation that is selected at that time *)
(* completes, the selection is cleared and the message list emptied.       *)
C8_DeleteSelectedClears ==
  [][\A c \in {d.conversationId : d \in deletes} :
       (DeletedStep(c) /\ selectedConversation = c) =>
          selectedConversation' = Null /\ messages' = <<>>]_vars

(* C9: when the deletion of a conversation that is not the selected one at *)
(* that time completes, selection and message list are unchanged and only  *)
(* that entry leaves the conversation list.                                *)
C9_DeleteOtherKeeps ==
  [][\A c \in {d.conversationId : d \in deletes} :
       (DeletedStep(c) /\ selectedConversation # c) =>
          /\ UNCHANGED <<selectedConversation, messages>>
          /\ conversations' = SelectSeq(conversations, LAMBDA x : x.id # c)]_vars

(* C10: no stored message belongs to a conversation whose record is gone.  *)
C10_NoOrphanMessages ==
  \A r \in dbMessages : r.conversation_id \in {c.id : c \in dbConvs}

----------------------------------------------------------------------------
(* Creating a conversation *)

\* the step on which the insert of createNewConversation returns a row
CreatedStep == creates'.insert < creates.insert /\ last'.op = "created"

\* the step on which the insert of sendMessage's auto-create returns a row
AutoCreatedStep == send.stage = "insert" /\ send'.stage = "invoke"

\* the step on which createNewConversation ends without a conversation
CreateFailedStep ==
  \/ creates'.getUser < creates.getUser /\ last'.op = "createNoUser"
  \/ creates'.insert < creates.insert /\ last'.op = "createFailed"

\* the stored messages of conversations other than c
StoredElsewhere(c) == {r.id : r \in {x \in dbMessages' : x.conversation_id # c}}

\* C11: when a conversation has been created, by New Conversation or by the
\* auto-create of a send, it is the first of the conversation list, it is the
\* selected conversation, and the message list holds no stored message of any
\* other conversation.
C11_CreatedIsHeadSelectedEmpty ==
  [][(CreatedStep \/ AutoCreatedStep) =>
       /\ conversations' # <<>>
       /\ conversations'[1].id = selectedConversation'
       /\ selectedConversation' \notin {r.id : r \in dbConvs}
       /\ selectedConversation' \in {r.id : r \in dbConvs'}
       /\ Ids(messages') \cap StoredElsewhere(selectedConversation') = {}]_vars

\* C12: when createNewConversation fails, because the insert is rejected or
\* because the identity lookup returns no user, an error notification is raised
\* and the conversation list, the selection, the message list and the input
\* are left as they were.
C12_CreateFailureNotified ==
  [][CreateFailedStep =>
       /\ IsErrorToast(last'.toast)
       /\ UNCHANGED <<conversations, selectedConversation, messages, input>>]_vars

----------------------------------------------------------------------------
(* Selecting a conversation, listing conversations *)

\* the step on which a loadMessages call for conversation c returns
LoadedStep(c) ==
  /\ CopiesIn(c, loads') < CopiesIn(c, loads)
  /\ last'.op \in {"loadMessages", "loadMessagesFailed"}

\* C13: once the selection of a conversation has completed, that is once its
\* loadMessages call has returned, with rows or with an error, the selected
\* conversation is that conversation and the message list is the backend's
\* stored messages of it in non-decreasing created_at order.
C13_SelectShowsStoredMessages ==
  [][\A c \in BagToSet(loads) :
       LoadedStep(c) =>
         /\ selectedConversation' = c
         /\ Ids(messages') = {r.id : r \in {x \in dbMessages' : x.conversation_id = c}}
         /\ Len(messages') = Cardinality(Ids(messages'))
         /\ \A j, k \in 1..Len(messages') :
              j < k => messages'[j].created_at <= messages'[k].created_at]_vars

\* the step on which the query of loadConversations returns
ListedStep == boot = "loadQuery" /\ boot' = "done"

\* the user's stored conversations, most recently updated first
IsStoredMostRecentFirst(convs) ==
  /\ {convs[k] : k \in 1..Len(convs)} = {AsConversation(r) : r \in dbConvs}
  /\ Len(convs) = Cardinality(dbConvs)
  /\ \A j, k \in 1..Len(convs) : j < k => convs[j].updated_at >= convs[k].updated_at

----------------------------------------------------------------------------
(* The response text shown *)

\* the places of the marker in a response text
Markers(r) == {k \in 1..Len(r) : r[k] = "M"}

\* the response has one data block: two markers, and between them a payload
\* that is not blank
HasOneBlock(r) ==
  /\ Cardinality(Markers(r)) = 2
  /\ \E i, j \in Markers(r) : i < j /\ ~Blank(SubSeq(r, i + 1, j - 1))

\* the response without its data block and without the two markers
WithoutBlock(r) ==
  LET i == CHOOSE k \in Markers(r) : \A l \in Markers(r) : k <= l
      j == CHOOSE k \in Markers(r) : \A l \in Markers(r) : k >= l
  IN SubSeq(r, 1, i - 1) \o SubSeq(r, j + 1, Len(r))

\* C15: for every response text that holds a data block between two markers,
\* the assistant message shown is the response with the block and both markers
\* removed (white space at its ends aside), so that no marker and no payload
\* is shown; a response without a marker is shown as it is.
C15_ActionBlockNeverShown ==
  last.op = "sendCommitted" =>
    LET r == last.of
        shown == messages[Len(messages)].content
    IN /\ HasOneBlock(r) =>
            /\ Trim(shown) = Trim(WithoutBlock(r))
            /\ \A k \in 1..Len(shown) : shown[k] # "M"
       /\ Markers(r) = {} => shown = r

----------------------------------------------------------------------------
(* The identity lookups *)

\* the step on which an identity lookup returns no user: that of checkAuth,
\* of loadConversations, of createNewConversation, of a send's auto-create
NoUserStep ==
  \/ boot = "checkAuth" /\ boot' = "done"
  \/ boot = "loadGetUser" /\ boot' = "done"
  \/ creates'.getUser < creates.getUser /\ last'.op = "createNoUser"
  \/ send.stage = "getUser" /\ send'.stage = "idle"

\* C16: whenever an identity lookup returns no user, at page load or inside
\* createNewConversation, a send's auto-create or loadConversations, the
\* application goes to the authentication entry.
C16_NoUserRedirects == [][NoUserStep => route' = "auth"]_vars

----------------------------------------------------------------------------
(* The request to the remote function *)

\* the step on which the remote function is invoked
InvokeStep == Len(invoked') = Len(invoked) + 1

\* the role and content of the stored messages of conversation c, in order
StoredContext(c) ==
  LET stored == ListMessages(c)
  IN [k \in 1..Len(stored) |-> [role |-> stored[k].role, content |-> stored[k].content]]

\* C17: the remote function is invoked with the message text, with the id of
\* the selected conversation, which is never null, and with a context that is
\* exactly the role and content, in order, of the messages of that
\* conversation that precede the new message, the optimistic entry excluded.
C17_RequestCarriesSelectedHistory ==
  [][InvokeStep =>
       LET req == invoked'[Len(invoked')]
       IN /\ req.message = send'.userMessage
          /\ req.conversationId # Null
          /\ req.conversationId = selectedConversation'
          /\ req.messages = StoredContext(req.conversationId)]_vars

\* a step of the send itself: its acceptance, or the return of one of its calls
SendOwnStep == send'.stage # send.stage

\* the step on which a send is accepted
SendAcceptStep == send.stage = "idle" /\ send'.stage # "idle"

\* title is the first TitleLen symbols of text
IsTitleOf(title, text) ==
  /\ Len(title) = (IF Len(text) < TitleLen THEN Len(text) ELSE TitleLen)
  /\ \A k \in 1..Len(title) : title[k] = text[k]

\* C18: a send accepted with no conversation selected creates, once its
\* identity lookup and insert have succeeded, exactly one conversation, titled
\* with the first 50 symbols of the text, selects it and puts it at the head
\* of the list, and only then invokes the remote function, for that
\* conversation; no other step of the send creates a conversation, and a send
\* accepted with a conversation selected invokes the remote function at once,
\* creates none and leaves the selection and the conversation list as they are.
C18_AutoCreateThenInvoke ==
  [][/\ SendAcceptStep =>
          (selectedConversation = Null <=> send'.stage = "getUser")
     /\ InvokeStep =>
          \/ AutoCreatedStep
          \/ SendAcceptStep /\ selectedConversation # Null
     /\ (SendOwnStep /\ ~AutoCreatedStep) =>
          /\ {r.id : r \in dbConvs'} = {r.id : r \in dbConvs}
          /\ UNCHANGED <<conversations, selectedConversation>>
     /\ AutoCreatedStep =>
          /\ send.conversationIdToUse = Null
          /\ InvokeStep
          /\ \E row \in dbConvs' \ dbConvs :
               /\ dbConvs' = dbConvs \cup {row}
               /\ IsTitleOf(row.title, send.userMessage)
               /\ selectedConversation' = row.id
               /\ conversations' = <<AsConversation(row)>> \o conversations
               /\ invoked'[Len(invoked')].conversationId = row.id]_vars

\* a send accepted with no conversation selected has created its conversation,
\* whose title is the text cut to 50 symbols, and waits for the remote function
C18_Witness ==
  /\ last.op = "sendCreated" /\ send.stage = "invoke"
  /\ selectedConversation = send.conversationIdToUse
  /\ conversations[1].id = selectedConversation
  /\ Len(send.userMessage) > TitleLen
  /\ Len(conversations[1].title) = TitleLen
  /\ invoked[Len(invoked)].conversationId = selectedConversation

----------------------------------------------------------------------------
(* The life of a send *)

\* the stages a send passes through: accepted with or without a conversation,
\* the lookup answered, the conversation inserted, and the three ways back
SendPath ==
  {<<"idle", "getUser">>, <<"idle", "invoke">>, <<"getUser", "insert">>,
   <<"insert", "invoke">>, <<"getUser", "idle">>, <<"insert", "idle">>,
   <<"invoke", "idle">>}

\* C19: a send goes from idle to pending on its acceptance only, and from
\* pending back to idle on the resolution of one of its own calls only, which
\* is either the commit (one assistant reply appended, no message removed, no
\* error raised) or the rollback (the optimistic message removed, nothing
\* appended, an error raised), never both and never neither; no other step
\* touches the pending send or the loading flag.
C19_SendLifecycle ==
  [][/\ loading <=> send.stage # "idle"
     /\ loading' <=> send'.stage # "idle"
     /\ SendOwnStep => <<send.stage, send'.stage>> \in SendPath
     /\ ~SendOwnStep => send' = send /\ loading' = loading
     /\ (~loading /\ loading') => SendAcceptStep
     /\ (loading /\ ~loading') =>
          /\ CommitStep \/ RollbackStep
          /\ ~(CommitStep /\ RollbackStep)
     /\ CommitStep =>
          /\ last'.toast = NoToast
          /\ Len(messages') = Len(messages) + 1
          /\ messages'[Len(messages')].role = "assistant"
          /\ \A k \in 1..Len(messages) :
               /\ messages'[k].role = messages[k].role
               /\ messages'[k].content = messages[k].content
     /\ RollbackStep =>
          /\ IsErrorToast(last'.toast)
          /\ Ids(messages') = Ids(messages) \ {send.tempId}
          /\ Len(messages') <= Len(messages)
          /\ View(messages') =
               View(SelectSeq(messages, LAMBDA m : m.id # send.tempId))]_vars

\* a send has ended by its commit: the user's message and the reply are shown
C19_Witness ==
  /\ last.op = "sendCommitted" /\ ~loading /\ send.stage = "idle"
  /\ Len(messages) >= 2
  /\ messages[Len(messages)].id[1] = "ai"
  /\ messages[Len(messages) - 1].id[1] = "user"

----------------------------------------------------------------------------
(* Flows in flight *)

\* 1 when the condition holds
Count(b) == IF b THEN 1 ELSE 0

\* the flows in flight whose completion writes the message list: loadMessages
\* calls, the pending send, creations, deletions
MessageWriters ==
  BagCardinality(loads) + Count(send.stage # "idle") + creates.getUser +
  creates.insert + Cardinality(deletes)

\* the flows in flight whose completion writes the conversation list: the
\* listing, a send that creates its conversation, creations, deletions
ConversationWriters ==
  Count(boot \in {"loadGetUser", "loadQuery"}) +
  Count(send.stage \in {"getUser", "insert"}) + creates.getUser +
  creates.insert + Cardinality(deletes)

\* C20: at no time are two asynchronous flows in flight that both write the
\* same in-memory structure: a load, a pending send, a creation and a deletion
\* never overlap so that the completion of one overwrites or extends the list
\* written by another.
C20_NoOverlappingWriters == MessageWriters <= 1 /\ ConversationWriters <= 1

----------------------------------------------------------------------------
(* Selections in quick succession *)

\* nothing but selections has happened: no conversation was created or
\* deleted and no message was sent
OnlySelections ==
  /\ dbConvs = SeedConvs /\ dbMessages = SeedMessages
  /\ send.stage = "idle" /\ invoked = <<>>
  /\ creates = [getUser |-> 0, insert |-> 0] /\ deletes = {}

\* C21: the last selection wins: when selections follow one another before
\* their message loads have returned, then once the last outstanding load has
\* returned its rows, the messages of the conversation selected last being
\* shown already, the selected conversation is the one selected last and the
\* message list holds its messages, in whichever order the reads returned.
C21_LastSelectionWins ==
  [][\A c \in BagToSet(loads) :
       (/\ OnlySelections
        /\ loads = SetToBag({c})
        /\ messages = ListMessages(selectedConversation)
        /\ LoadedStep(c) /\ last'.op = "loadMessages")
       => /\ selectedConversation' # Null
          /\ messages' = ListMessages(selectedConversation')]_vars

----------------------------------------------------------------------------
(* The reply and the selection *)

\* C22: the reply of a send is appended to the message list only while the
\* selected conversation is the one the message was sent to: not after the
\* user has selected another conversation, started a new one or deleted the
\* conversation while the send was pending.
C22_ReplyOnlyToItsConversation ==
  [][(CommitStep /\ Len(messages') > Len(messages)) =>
       selectedConversation' = send.conversationIdToUse]_vars

\* C23: in every reachable state the selected conversation is null or is a
\* conversation of the in-memory conversation list.
C23_SelectedIsListed ==
  \/ selectedConversation = Null
  \/ \E k \in 1..Len(conversations) : conversations[k].id = selectedConversation

----------------------------------------------------------------------------
(* The auto-select of the page load *)

\* C24: the listing of the page load selects the most recently updated
\* conversation and loads its messages only if no conversation is selected
\* when it returns: a conversation created before that stays selected and
\* listed, and no load is started that would replace its message list.
C24_AutoSelectOnlyWhenNoneSelected ==
  [][(ListedStep /\ last'.op = "loadConversations") =>
       IF selectedConversation = Null
       THEN conversations' # <<>> =>
              /\ selectedConversation' = conversations'[1].id
              /\ loads' = loads (+) SetToBag({conversations'[1].id})
       ELSE /\ UNCHANGED <<selectedConversation, loads, messages>>
            /\ \E k \in 1..Len(conversations') :
                 conversations'[k].id = selectedConversation]_vars

----------------------------------------------------------------------------
(* The admin pages *)

\* the admin check has found a signed-in user who holds the admin role
AdminEstablished == admin.check = "passed" /\ admin.visitor = "admin"

\* C25: on the admin pages the protected table is queried, and its rows are
\* placed in page state, only after the admin check has established a
\* signed-in user with the admin role; for a signed-out or non-admin visitor
\* no query is issued and no rows are held.
C25_QueryOnlyAfterAdminCheck ==
  /\ admin.queried => AdminEstablished
  /\ admin.rows # <<>> => AdminEstablished

============================================================================
